---- MODULE Spec2Model ----
(***************************************************************************)
(* Model of the visual feedback loop: SimpleTracker (vision/tracker.py),   *)
(* Controller (control/controller.py) and FeedbackLoop.step                *)
(* (loop/feedback_loop.py).                                                *)
(*                                                                         *)
(* Numbers.  The program computes with Python floats.  The model computes  *)
(* with exact rationals <<n, d>> (d > 0, lowest terms).  On the values the *)
(* model draws (pixel coordinates that are small integers, frame sizes 0   *)
(* and 10, margins 0, 0.15, 0.25, probe positions k/20) every float        *)
(* division and comparison of the program gives the result of the exact    *)
(* one, e.g. 0.5 - 0.15 == 0.35 and 0.5 + 0.15 == 0.65 in binary64.        *)
(*                                                                         *)
(* Python None is modelled by the empty tuple for a tuple-valued           *)
(* attribute and by the record NoneRec for a dict/object-valued one.       *)
(***************************************************************************)
EXTENDS Integers, Sequences, FiniteSets, TLC

VARIABLES
    last_center,     \* SimpleTracker.last_center: <<>> (None) or <<cx, cy>>
    lost_frames,     \* SimpleTracker.lost_frames
    lost_threshold,  \* SimpleTracker.lost_threshold
    center_margin,   \* Controller.center_margin
    forward_speed,   \* Controller.forward_speed
    rotate_speed,    \* Controller.rotate_speed
    search_speed,    \* Controller.search_speed
    detections,      \* what detector.detect returned in the last step
    tracker_state,   \* the dict SimpleTracker.update returned last
    ctl_arg,         \* the dict Controller.update was called with last
    control,         \* the ControlSignal Controller.update returned last
    cycle,           \* history: number of tracker updates so far
    last_det_cycle,  \* history: cycle of the latest non-empty detection, 0 if none
    det,             \* history: [box, w, h] of the latest non-empty detection
    prev_lost,       \* history: lost_frames as the latest update found it
    pc,              \* position of the process in main / FeedbackLoop.run / step
    runs,            \* history: number of times the program was started
    src_len,         \* number of frames the capture source holds
    pos,             \* number of frames cap.read has delivered
    display,         \* run's parameter display
    has_on_step,     \* run's parameter on_step is not None
    frame,           \* the frame cap.read returned last: [id, w, h]
    calls,           \* history: the calls the current step has made, in order
    upd_args,        \* history: the arguments of the latest tracker.update
    step_ret,        \* what the latest step returned: [control, state]
    stepped,         \* history: ids of the frames handed to step, in order
    callbacks,       \* history: number of completed on_step calls
    keychecks,       \* history: number of waitKey checks
    n_open,          \* history: number of cv2.VideoCapture(source) calls
    n_release,       \* history: number of cap.release() calls
    quit,            \* the quit key was seen
    exc,             \* an exception is propagating out of run
    eof,             \* cap.read reported ok = False
    is_opened,       \* what cap.isOpened() answered
    carried,         \* history: last_center when the previous run ended
    th,              \* two callers inside SimpleTracker.update: position, locals
    conc             \* history of the two concurrent calls

vars == <<last_center, lost_frames, lost_threshold, center_margin,
          forward_speed, rotate_speed, search_speed, detections,
          tracker_state, ctl_arg, control, cycle, last_det_cycle, det,
          prev_lost, pc, runs, src_len, pos, display, has_on_step, frame,
          calls, upd_args, step_ret, stepped, callbacks, keychecks, n_open,
          n_release, quit, exc, eof, is_opened, carried, th, conc>>

trackerVars == <<last_center, lost_frames, lost_threshold>>
histVars == <<cycle, last_det_cycle, det, prev_lost>>
controllerVars == <<center_margin, forward_speed, rotate_speed, search_speed>>
runVars == <<pc, runs, src_len, pos, display, has_on_step, frame, calls,
             upd_args, step_ret, stepped, callbacks, keychecks, n_open,
             n_release, quit, exc, eof, is_opened, carried>>
concVars == <<th, conc>>

----------------------------------------------------------------------------
(* Bounds *)

MaxCycles == 13

----------------------------------------------------------------------------
(* Exact rational arithmetic standing for the float operators *)

Abs(n) == IF n < 0 THEN -n ELSE n

RECURSIVE GCD(_, _)
GCD(a, b) == IF b = 0 THEN a ELSE GCD(b, a % b)

\* the rational n/d (d > 0) in lowest terms
Rat(n, d) == LET g == GCD(Abs(n), d) IN <<n \div g, d \div g>>

RatDiv(a, k) == IF k > 0 THEN Rat(a[1], a[2] * k) ELSE Rat(-a[1], a[2] * (-k))
RatAdd(a, b) == Rat(a[1] * b[2] + b[1] * a[2], a[2] * b[2])
RatSub(a, b) == Rat(a[1] * b[2] - b[1] * a[2], a[2] * b[2])
RatNeg(a) == <<-a[1], a[2]>>
RatLt(a, b) == a[1] * b[2] < b[1] * a[2]
RatLe(a, b) == a[1] * b[2] <= b[1] * a[2]

Zero == Rat(0, 1)
One == Rat(1, 1)
Half == Rat(1, 2)

----------------------------------------------------------------------------
(* Python None *)

None == <<>>
NoneRec == [none |-> TRUE]

----------------------------------------------------------------------------
(* vision/tracker.py *)

DefaultLostThreshold == 10

\* variant: the sum of the corners is not halved
center_of_bbox_NoHalf(xyxy) ==
    <<Rat(xyxy[1] + xyxy[3], 1), Rat(xyxy[2] + xyxy[4], 1)>>

center_of_bbox(xyxy) ==
    <<Rat(xyxy[1] + xyxy[3], 2), Rat(xyxy[2] + xyxy[4], 2)>>

\* variant: a zero dimension falls back to 0 instead of 0.5
bbox_in_frame_normalized_ZeroFallback(xyxy, width, height) ==
    LET c == center_of_bbox(xyxy)
    IN  <<IF width # 0 THEN RatDiv(c[1], width) ELSE Zero,
          IF height # 0 THEN RatDiv(c[2], height) ELSE Zero>>

bbox_in_frame_normalized(xyxy, width, height) ==
    LET c == center_of_bbox(xyxy)
    IN  <<IF width # 0 THEN RatDiv(c[1], width) ELSE Half,
          IF height # 0 THEN RatDiv(c[2], height) ELSE Half>>

\* variant: the grace period expires one update late (> for >=, <= for <)
UpdateEmpty_LateExpiry ==
    LET lf == lost_frames + 1
        lc == IF lf > lost_threshold THEN None ELSE last_center
    IN  /\ lost_frames' = lf
        /\ last_center' = lc
        /\ tracker_state' =
             [found     |-> lf <= lost_threshold /\ lc # None,
              cx_norm   |-> IF lc = None THEN Half ELSE lc[1],
              cy_norm   |-> IF lc = None THEN Half ELSE lc[2],
              bbox_xyxy |-> None]

\* variant: the grace period expires one update early
UpdateEmpty_EarlyExpiry ==
    LET lf == lost_frames + 1
        lc == IF lf + 1 >= lost_threshold THEN None ELSE last_center
    IN  /\ lost_frames' = lf
        /\ last_center' = lc
        /\ tracker_state' =
             [found     |-> lf + 1 < lost_threshold /\ lc # None,
              cx_norm   |-> IF lc = None THEN Half ELSE lc[1],
              cy_norm   |-> IF lc = None THEN Half ELSE lc[2],
              bbox_xyxy |-> None]

\* variant: found does not ask whether a centre is remembered
UpdateEmpty_NoAcquireCheck ==
    LET lf == lost_frames + 1
        lc == IF lf >= lost_threshold THEN None ELSE last_center
    IN  /\ lost_frames' = lf
        /\ last_center' = lc
        /\ tracker_state' =
             [found     |-> lf < lost_threshold,
              cx_norm   |-> IF lc = None THEN Half ELSE lc[1],
              cy_norm   |-> IF lc = None THEN Half ELSE lc[2],
              bbox_xyxy |-> None]

\* variant: the remembered centre is not forgotten when the grace period ends
UpdateEmpty_KeepCenter ==
    LET lf == lost_frames + 1
        lc == last_center
    IN  /\ lost_frames' = lf
        /\ last_center' = lc
        /\ tracker_state' =
             [found     |-> lf < lost_threshold /\ lc # None,
              cx_norm   |-> IF lc = None THEN Half ELSE lc[1],
              cy_norm   |-> IF lc = None THEN Half ELSE lc[2],
              bbox_xyxy |-> None]

\* SimpleTracker.update, the branch of an empty detection list
UpdateEmpty ==
    LET lf == lost_frames + 1
        lc == IF lf >= lost_threshold THEN None ELSE last_center
    IN  /\ lost_frames' = lf
        /\ last_center' = lc
        /\ tracker_state' =
             [found     |-> lf < lost_threshold /\ lc # None,
              cx_norm   |-> IF lc = None THEN Half ELSE lc[1],
              cy_norm   |-> IF lc = None THEN Half ELSE lc[2],
              bbox_xyxy |-> None]

\* variant: a detection does not zero the lost counter
UpdateDetected_KeepCounter(dets, frame_width, frame_height) ==
    LET d == dets[1]
        xyxy == d.bbox_xyxy
        n == bbox_in_frame_normalized(xyxy, frame_width, frame_height)
    IN  /\ last_center' = n
        /\ lost_frames' = lost_frames
        /\ tracker_state' =
             [found     |-> TRUE,
              cx_norm   |-> n[1],
              cy_norm   |-> n[2],
              bbox_xyxy |-> xyxy]

\* SimpleTracker.update, the branch of a non-empty detection list
UpdateDetected(dets, frame_width, frame_height) ==
    LET d == dets[1]
        xyxy == d.bbox_xyxy
        n == bbox_in_frame_normalized(xyxy, frame_width, frame_height)
    IN  /\ last_center' = n
        /\ lost_frames' = 0
        /\ tracker_state' =
             [found     |-> TRUE,
              cx_norm   |-> n[1],
              cy_norm   |-> n[2],
              bbox_xyxy |-> xyxy]

SimpleTracker_update(dets, frame_width, frame_height) ==
    /\ IF dets = <<>>
         THEN UpdateEmpty
         ELSE UpdateDetected(dets, frame_width, frame_height)
    /\ UNCHANGED lost_threshold

----------------------------------------------------------------------------
(* control/controller.py *)

DefaultCenterMargin == Rat(15, 100)
DefaultForwardSpeed == Rat(5, 10)
DefaultRotateSpeed == Rat(4, 10)
DefaultSearchSpeed == Rat(2, 10)

ControlSignal(linear, angular, mode) ==
    [linear |-> linear, angular |-> angular, mode |-> mode]

\* dict.get(key, default)
Get(d, key, default) == IF key \in DOMAIN d THEN d[key] ELSE default

\* variant: the two rotation rules are exchanged
Controller_update_Swapped(ts) ==
    LET found == Get(ts, "found", FALSE)
        cx_norm == Get(ts, "cx_norm", Half)
        center == Half
        margin == center_margin
    IN  IF ~found
          THEN ControlSignal(Zero, search_speed, "search")
        ELSE IF RatLt(cx_norm, RatSub(center, margin))
          THEN ControlSignal(Zero, RatNeg(rotate_speed), "rotate_right")
        ELSE IF RatLt(RatAdd(center, margin), cx_norm)
          THEN ControlSignal(Zero, rotate_speed, "rotate_left")
        ELSE ControlSignal(forward_speed, Zero, "forward")

\* variant: the comparisons include the edges of the band (<= and >=)
Controller_update_Inclusive(ts) ==
    LET found == Get(ts, "found", FALSE)
        cx_norm == Get(ts, "cx_norm", Half)
        center == Half
        margin == center_margin
    IN  IF ~found
          THEN ControlSignal(Zero, search_speed, "search")
        ELSE IF RatLe(cx_norm, RatSub(center, margin))
          THEN ControlSignal(Zero, rotate_speed, "rotate_left")
        ELSE IF RatLe(RatAdd(center, margin), cx_norm)
          THEN ControlSignal(Zero, RatNeg(rotate_speed), "rotate_right")
        ELSE ControlSignal(forward_speed, Zero, "forward")

\* variant: the position rules come before the found rule
Controller_update_PositionFirst(ts) ==
    LET found == Get(ts, "found", FALSE)
        cx_norm == Get(ts, "cx_norm", Half)
        center == Half
        margin == center_margin
    IN  IF RatLt(cx_norm, RatSub(center, margin))
          THEN ControlSignal(Zero, rotate_speed, "rotate_left")
        ELSE IF RatLt(RatAdd(center, margin), cx_norm)
          THEN ControlSignal(Zero, RatNeg(rotate_speed), "rotate_right")
        ELSE IF ~found
          THEN ControlSignal(Zero, search_speed, "search")
        ELSE ControlSignal(forward_speed, Zero, "forward")

\* variant: a lost target stops the robot
Controller_update_StopWhenLost(ts) ==
    LET found == Get(ts, "found", FALSE)
        cx_norm == Get(ts, "cx_norm", Half)
        center == Half
        margin == center_margin
    IN  IF ~found
          THEN ControlSignal(Zero, Zero, "stop")
        ELSE IF RatLt(cx_norm, RatSub(center, margin))
          THEN ControlSignal(Zero, rotate_speed, "rotate_left")
        ELSE IF RatLt(RatAdd(center, margin), cx_norm)
          THEN ControlSignal(Zero, RatNeg(rotate_speed), "rotate_right")
        ELSE ControlSignal(forward_speed, Zero, "forward")

Controller_update(ts) ==
    LET found == Get(ts, "found", FALSE)
        cx_norm == Get(ts, "cx_norm", Half)
        center == Half
        margin == center_margin
    IN  IF ~found
          THEN ControlSignal(Zero, search_speed, "search")
        ELSE IF RatLt(cx_norm, RatSub(center, margin))
          THEN ControlSignal(Zero, rotate_speed, "rotate_left")
        ELSE IF RatLt(RatAdd(center, margin), cx_norm)
          THEN ControlSignal(Zero, RatNeg(rotate_speed), "rotate_right")
        ELSE ControlSignal(forward_speed, Zero, "forward")

----------------------------------------------------------------------------
(* Inputs *)

\* frame shapes (w, h); one axis may have no pixels
FrameDims == {<<10, 10>>, <<0, 10>>, <<10, 0>>}

\* horizontal extents x1 <= x2 of a box: centres 0, 3, 3.5, 5, 6.5, 7, 10
\* inside a frame of width 10, and 12 outside it
XExtents == {<<0, 0>>, <<3, 3>>, <<3, 4>>, <<4, 6>>, <<6, 7>>, <<7, 7>>,
             <<10, 10>>, <<12, 12>>}
\* vertical extents y1 <= y2: centres 0, 5, 10 inside a frame of height 10,
\* and 11 outside it
YExtents == {<<0, 0>>, <<4, 6>>, <<10, 10>>, <<10, 12>>}

\* boxes (x1, y1, x2, y2): every horizontal extent at mid height, every
\* vertical extent at mid width
Boxes == {<<x[1], 4, x[2], 6>> : x \in XExtents}
           \cup {<<4, y[1], 6, y[2]>> : y \in YExtents}

\* detector.detect returns a list of detections; update reads the first only
Detection(xyxy) == [bbox_xyxy |-> xyxy]
DetectionLists == {<<>>} \cup {<<Detection(b)>> : b \in Boxes}
                         \cup {<<Detection(<<3, 4, 3, 6>>), Detection(<<7, 4, 7, 6>>)>>}

LostThresholds == {1, 3, DefaultLostThreshold}
CenterMargins == {Zero, DefaultCenterMargin, Rat(1, 4)}

----------------------------------------------------------------------------
(* loop/feedback_loop.py *)

\* FeedbackLoop.step on a frame of shape (h, w) for which the detector
\* answers dets
step(w, h, dets) ==
    /\ cycle < MaxCycles
    /\ detections' = dets
    /\ SimpleTracker_update(dets, w, h)
    /\ ctl_arg' = tracker_state'
    /\ control' = Controller_update(tracker_state')
    /\ cycle' = cycle + 1
    /\ prev_lost' = lost_frames
    /\ IF dets = <<>>
         THEN UNCHANGED <<last_det_cycle, det>>
         ELSE /\ last_det_cycle' = cycle + 1
              /\ det' = [box |-> dets[1].bbox_xyxy, w |-> w, h |-> h]
    /\ UNCHANGED <<center_margin, forward_speed, rotate_speed, search_speed>>
    /\ UNCHANGED <<runVars, concVars>>

\* the state after SimpleTracker(), Controller(...) and FeedbackLoop(...)
Fresh ==
    /\ last_center = None
    /\ lost_frames = 0
    /\ detections = <<>>
    /\ tracker_state = NoneRec
    /\ ctl_arg = NoneRec
    /\ control = NoneRec
    /\ cycle = 0
    /\ last_det_cycle = 0
    /\ det = NoneRec
    /\ prev_lost = 0

\* no caller is inside update
NoCaller == [pc |-> "out", dets |-> <<>>, reg |-> 0, found |-> FALSE,
             cx |-> Half, cy |-> Half, ret |-> NoneRec]

\* run has not been entered and nobody is inside update
Idle ==
    /\ th = [t \in {1, 2} |-> NoCaller]
    /\ pc = "idle"
    /\ runs = 0
    /\ src_len = 0
    /\ pos = 0
    /\ display = FALSE
    /\ has_on_step = FALSE
    /\ frame = NoneRec
    /\ calls = <<>>
    /\ upd_args = NoneRec
    /\ step_ret = NoneRec
    /\ stepped = <<>>
    /\ callbacks = 0
    /\ keychecks = 0
    /\ n_open = 0
    /\ n_release = 0
    /\ quit = FALSE
    /\ exc = FALSE
    /\ eof = FALSE
    /\ is_opened = FALSE
    /\ carried = None
    /\ conc = [started |-> <<>>, overlapped |-> FALSE,
               lc0 |-> last_center, lf0 |-> lost_frames]

Init ==
    /\ Fresh
    /\ Idle
    /\ lost_threshold \in LostThresholds
    /\ center_margin = DefaultCenterMargin
    /\ forward_speed = DefaultForwardSpeed
    /\ rotate_speed = DefaultRotateSpeed
    /\ search_speed = DefaultSearchSpeed

Next == \E d \in FrameDims, dets \in DetectionLists : step(d[1], d[2], dets)

Spec == Init /\ [][Next]_vars

----------------------------------------------------------------------------
(* Controller.update as a function of its argument and its configuration *)

SearchSpeeds == {DefaultSearchSpeed, Rat(3, 10)}
RotateSpeeds == {DefaultRotateSpeed, Rat(6, 10)}
ForwardSpeeds == {DefaultForwardSpeed, One}

\* positions k/20 from -0.1 to 1.1
Positions == {Rat(k, 20) : k \in -2..22}

\* the dicts handed to Controller.update: full tracker states, found or not
\* at any position, and dicts that lack a key
TrackerStates ==
    {[found |-> f, cx_norm |-> x, cy_norm |-> Half, bbox_xyxy |-> None] :
        f \in BOOLEAN, x \in Positions}
    \cup {[found |-> f] : f \in BOOLEAN}
    \cup {[cx_norm |-> x] : x \in {Rat(1, 10), Half}}

\* a direct call controller.update(ts)
Controller_call(ts) ==
    /\ ctl_arg' = ts
    /\ control' = Controller_update(ts)
    /\ UNCHANGED <<trackerVars, center_margin, forward_speed, rotate_speed,
                   search_speed, detections, tracker_state, histVars,
                   runVars, concVars>>

InitController ==
    /\ Fresh
    /\ Idle
    /\ lost_threshold = DefaultLostThreshold
    /\ center_margin \in CenterMargins
    /\ forward_speed \in ForwardSpeeds
    /\ rotate_speed \in RotateSpeeds
    /\ search_speed \in SearchSpeeds

NextController == \E ts \in TrackerStates : Controller_call(ts)

SpecController == InitController /\ [][NextController]_vars

----------------------------------------------------------------------------
(* Properties of SimpleTracker.update *)

\* a detection has been seen
Acquired == last_det_cycle >= 1
\* number of consecutive empty updates since the latest detection (or since
\* construction)
Misses == cycle - last_det_cycle

\* v is the rational (a + b) / 2 / dim
IsCentreOver(v, a, b, dim) == v[1] * 2 * dim = (a + b) * v[2]
InUnit(v) == RatLe(Zero, v) /\ RatLe(v, One)

\* the normalized centre the latest detection established
StaleX(v) == IF det.w = 0 THEN v = Half
             ELSE IsCentreOver(v, det.box[1], det.box[3], det.w)
StaleY(v) == IF det.h = 0 THEN v = Half
             ELSE IsCentreOver(v, det.box[2], det.box[4], det.h)

AtReset == /\ ~tracker_state.found
           /\ tracker_state.cx_norm = Half
           /\ tracker_state.cy_norm = Half

\* C1: after a detection, the k-th consecutive empty update still reports
\* found with the stale position while k < lost_threshold, and the
\* lost_threshold-th reports not found at (0.5, 0.5)
Hysteresis ==
    (Acquired /\ Misses >= 1) =>
        /\ Misses < lost_threshold =>
             /\ tracker_state.found
             /\ StaleX(tracker_state.cx_norm)
             /\ StaleY(tracker_state.cy_norm)
        /\ Misses = lost_threshold => AtReset

HysteresisWitness ==
    /\ Acquired
    /\ lost_threshold = DefaultLostThreshold
    /\ Misses = lost_threshold
    /\ det.box = <<3, 4, 3, 6>> /\ det.w = 10 /\ det.h = 10
    /\ AtReset

\* C3: a tracker that has only seen empty detection lists reports not found
\* at (0.5, 0.5) on every call, from the first one on and for every
\* lost_threshold
NoGraceBeforeAcquisition ==
    (cycle >= 1 /\ ~Acquired) => AtReset

NoGraceBeforeAcquisitionWitness ==
    /\ cycle = 1
    /\ ~Acquired
    /\ lost_threshold = DefaultLostThreshold
    /\ lost_frames = 1
    /\ ~tracker_state.found

\* C4: whatever the streak of empty updates before it, an update with a
\* detection reports found at the normalized centre of the first detection,
\* stores that centre and zeroes the lost counter
Recovery ==
    (cycle >= 1 /\ detections # <<>>) =>
        LET b == detections[1].bbox_xyxy
        IN  /\ tracker_state.found
            /\ IF det.w = 0 THEN tracker_state.cx_norm = Half
               ELSE IsCentreOver(tracker_state.cx_norm, b[1], b[3], det.w)
            /\ IF det.h = 0 THEN tracker_state.cy_norm = Half
               ELSE IsCentreOver(tracker_state.cy_norm, b[2], b[4], det.h)
            /\ last_center = <<tracker_state.cx_norm, tracker_state.cy_norm>>
            /\ lost_frames = 0

RecoveryWitness ==
    /\ cycle >= 1
    /\ detections # <<>>
    /\ last_det_cycle = cycle
    /\ prev_lost > lost_threshold
    /\ lost_threshold = DefaultLostThreshold
    /\ lost_frames = 0
    /\ tracker_state.found

\* C5: a returned state with found = false carries exactly (0.5, 0.5)
LostReportsCentre ==
    (cycle >= 1 /\ ~tracker_state.found) =>
        /\ tracker_state.cx_norm = Half
        /\ tracker_state.cy_norm = Half

LostReportsCentreWitness ==
    /\ Acquired
    /\ Misses >= lost_threshold
    /\ det.box = <<7, 4, 7, 6>> /\ det.w = 10
    /\ ~tracker_state.found
    /\ last_center = None

\* C6: every returned cx_norm and cy_norm is in [0, 1], for any box with
\* x1 <= x2, y1 <= y2 and any frame size
NormalizedAlwaysInUnit ==
    cycle >= 1 => /\ InUnit(tracker_state.cx_norm)
                  /\ InUnit(tracker_state.cy_norm)

\* the latest detection lies inside its frame, which has positive size
DetInsideFrame ==
    /\ Acquired
    /\ det.w > 0 /\ det.h > 0
    /\ 0 <= det.box[1] /\ det.box[1] <= det.box[3] /\ det.box[3] <= det.w
    /\ 0 <= det.box[2] /\ det.box[2] <= det.box[4] /\ det.box[4] <= det.h

\* C7: for a box inside a frame of positive size, the update that consumes it
\* and every coasting update that replays it emit the centre divided by the
\* frame size, which is in [0, 1]
NormalizationBound ==
    (DetInsideFrame /\ tracker_state.found) =>
        /\ InUnit(tracker_state.cx_norm)
        /\ InUnit(tracker_state.cy_norm)
        /\ IsCentreOver(tracker_state.cx_norm, det.box[1], det.box[3], det.w)
        /\ IsCentreOver(tracker_state.cy_norm, det.box[2], det.box[4], det.h)

NormalizationBoundWitness ==
    /\ DetInsideFrame
    /\ det.box = <<10, 4, 10, 6>>
    /\ Misses >= 1
    /\ tracker_state.found
    /\ tracker_state.cx_norm = One

----------------------------------------------------------------------------
(* End-to-end scenario over FeedbackLoop.step *)

\* a fresh loop with the default configuration whose cycle 1 had a detection
\* centred at (0.3, 0.5) and whose later cycles all had empty detections
Scenario ==
    /\ lost_threshold = DefaultLostThreshold
    /\ center_margin = DefaultCenterMargin
    /\ last_det_cycle = 1
    /\ det.w > 0 /\ det.h > 0
    /\ IsCentreOver(Rat(3, 10), det.box[1], det.box[3], det.w)
    /\ IsCentreOver(Half, det.box[2], det.box[4], det.h)

Coasting ==
    /\ tracker_state.found
    /\ tracker_state.cx_norm = Rat(3, 10)
    /\ tracker_state.cy_norm = Half
    /\ control.mode = "rotate_left"

Lost ==
    /\ ~tracker_state.found
    /\ control.mode = "search"

\* C2 as stated: rotate_left in cycle 1, found at (0.3, 0.5) and rotate_left
\* in the empty cycles 2 to 9, not found and search in the empty cycle 10
EndToEndAsStated ==
    Scenario =>
        /\ cycle = 1 => control.mode = "rotate_left"
        /\ cycle \in 2..9 => Coasting
        /\ cycle = 10 => Lost

\* C2 amended: the empty cycle 10 is the 9th consecutive miss and still
\* coasts; the empty cycle 11, the 10th consecutive miss, is the first to
\* report not found and search
EndToEnd ==
    Scenario =>
        /\ cycle = 1 => control.mode = "rotate_left"
        /\ cycle \in 2..10 => Coasting
        /\ cycle = 11 => Lost

EndToEndWitness ==
    /\ Scenario
    /\ cycle = 11
    /\ Misses = 10
    /\ Lost

----------------------------------------------------------------------------
(* Properties of Controller.update *)

Called == "mode" \in DOMAIN control
ArgFound == Get(ctl_arg, "found", FALSE)
ArgCx == Get(ctl_arg, "cx_norm", Half)
LowEdge == RatSub(Half, center_margin)
HighEdge == RatAdd(Half, center_margin)

RotateLeft == control = [linear |-> Zero, angular |-> rotate_speed,
                         mode |-> "rotate_left"]
RotateRight == control = [linear |-> Zero, angular |-> RatNeg(rotate_speed),
                          mode |-> "rotate_right"]
Forward == control = [linear |-> forward_speed, angular |-> Zero,
                      mode |-> "forward"]

\* C8: on a found target the rules are, in order and with strict
\* comparisons, left of the band: rotate_left; right of it: rotate_right;
\* otherwise, both edges of the band included: forward.  With margin 0.15,
\* 0.3 rotates left, 0.7 rotates right and 0.35, 0.5, 0.65 go forward
ControllerRules ==
    (Called /\ ArgFound) =>
        /\ RatLt(ArgCx, LowEdge) => RotateLeft
        /\ (~RatLt(ArgCx, LowEdge) /\ RatLt(HighEdge, ArgCx)) => RotateRight
        /\ (RatLe(LowEdge, ArgCx) /\ RatLe(ArgCx, HighEdge)) => Forward
        /\ ArgCx \in {LowEdge, HighEdge} => control.mode = "forward"
        /\ center_margin = Rat(15, 100) =>
             /\ ArgCx = Rat(3, 10) => control.mode = "rotate_left"
             /\ ArgCx = Rat(7, 10) => control.mode = "rotate_right"
             /\ ArgCx \in {Rat(35, 100), Half, Rat(65, 100)}
                  => control.mode = "forward"

ControllerRulesWitness ==
    /\ Called
    /\ ArgFound
    /\ center_margin = Rat(15, 100)
    /\ ArgCx = Rat(35, 100)
    /\ Forward

\* C9: a state with found = false gives search with no linear motion and the
\* positive rate search_speed, wherever its cx_norm lies
SearchOverride ==
    (Called /\ ~ArgFound) =>
        /\ control.mode = "search"
        /\ control.linear = Zero
        /\ control.angular = search_speed
        /\ RatLt(Zero, control.angular)

SearchOverrideWitness ==
    /\ Called
    /\ ~ArgFound
    /\ "cx_norm" \in DOMAIN ctl_arg
    /\ RatLt(ArgCx, LowEdge)
    /\ control.mode = "search"

\* C10: the emitted mode is forward, rotate_left, rotate_right or search,
\* never stop
ModeVocabulary ==
    Called => /\ control.mode \in {"forward", "rotate_left", "rotate_right",
                                   "search"}
              /\ control.mode # "stop"

ModeVocabularyWitness ==
    /\ Called
    /\ ArgFound
    /\ RatLt(HighEdge, ArgCx)
    /\ control.mode = "rotate_right"

----------------------------------------------------------------------------
(* Further properties of the tracker inside the loop *)

\* C18: an update with a detection in a frame of width 0 returns cx_norm 0.5,
\* in a frame of height 0 returns cy_norm 0.5, the other axis still being
\* divided; it returns found, stores the pair and zeroes the lost counter
ZeroDimensionGuard ==
    (cycle >= 1 /\ detections # <<>> /\ (det.w = 0 \/ det.h = 0)) =>
        /\ det.w = 0 => tracker_state.cx_norm = Half
        /\ det.h = 0 => tracker_state.cy_norm = Half
        /\ det.w # 0 => IsCentreOver(tracker_state.cx_norm,
                                     det.box[1], det.box[3], det.w)
        /\ det.h # 0 => IsCentreOver(tracker_state.cy_norm,
                                     det.box[2], det.box[4], det.h)
        /\ tracker_state.found
        /\ last_center = <<tracker_state.cx_norm, tracker_state.cy_norm>>
        /\ lost_frames = 0

ZeroDimensionGuardWitness ==
    /\ cycle >= 1
    /\ detections # <<>>
    /\ det.w = 0 /\ det.h = 10
    /\ det.box = <<4, 0, 6, 0>>
    /\ tracker_state.found
    /\ last_center = <<Half, Zero>>

\* one of the cycles n-(T-1), ..., n had a detection
InWindow == Acquired /\ Misses <= lost_threshold - 1

\* C19: in cycle n the tracker reports found, and the controller a mode other
\* than search, exactly when one of the cycles n-(T-1), ..., n had a
\* detection; found turns from false to true only in a cycle with a
\* detection; forward is never commanded more than T-1 cycles after the
\* latest detection
WindowCharacterization ==
    /\ [](cycle >= 1 =>
            /\ tracker_state.found <=> InWindow
            /\ control.mode # "search" <=> InWindow
            /\ control.mode = "forward" =>
                 (Acquired /\ Misses <= lost_threshold - 1))
    /\ [][(cycle >= 1 /\ ~tracker_state.found /\ tracker_state'.found)
            => detections' # <<>>]_vars

WindowCharacterizationWitness ==
    /\ cycle >= 1
    /\ lost_threshold = 3
    /\ Acquired
    /\ Misses = 2
    /\ prev_lost = 1
    /\ tracker_state.found
    /\ control.mode = "forward"

----------------------------------------------------------------------------
(* run.py main and FeedbackLoop.run, one statement at a time *)

MaxFrames == 3
MaxRuns == 2

\* what the detector answers for a frame of the capture source
RunDetections == {<<>>, <<Detection(<<3, 4, 3, 6>>)>>,
                  <<Detection(<<4, 4, 6, 6>>)>>}

Terminated == {"open_failed", "returned", "raised"}

\* variant: the tracker's attributes live on from the previous construction
SimpleTracker_init_Keep ==
    /\ UNCHANGED <<last_center, lost_frames>>
    /\ lost_threshold' = DefaultLostThreshold

\* SimpleTracker.__init__
SimpleTracker_init ==
    /\ last_center' = None
    /\ lost_frames' = 0
    /\ lost_threshold' = DefaultLostThreshold

\* Controller.__init__ with the other parameters at their defaults
Controller_init(margin) ==
    /\ center_margin' = margin
    /\ forward_speed' = DefaultForwardSpeed
    /\ rotate_speed' = DefaultRotateSpeed
    /\ search_speed' = DefaultSearchSpeed

\* main: a start of the program constructs the detector, the tracker, the
\* controller and the loop and enters loop.run on a source of n frames
main ==
    /\ pc \in {"idle"} \cup Terminated
    /\ runs < MaxRuns
    /\ runs' = runs + 1
    /\ carried' = last_center
    /\ SimpleTracker_init
    /\ Controller_init(DefaultCenterMargin)
    /\ detections' = <<>>
    /\ tracker_state' = NoneRec
    /\ ctl_arg' = NoneRec
    /\ control' = NoneRec
    /\ cycle' = 0
    /\ last_det_cycle' = 0
    /\ det' = NoneRec
    /\ prev_lost' = 0
    /\ \E n \in 0..MaxFrames, d \in BOOLEAN, cb \in BOOLEAN :
          /\ src_len' = n
          /\ display' = d
          /\ has_on_step' = cb
    /\ pos' = 0
    /\ frame' = NoneRec
    /\ calls' = <<>>
    /\ upd_args' = NoneRec
    /\ step_ret' = NoneRec
    /\ stepped' = <<>>
    /\ callbacks' = 0
    /\ keychecks' = 0
    /\ n_open' = 0
    /\ n_release' = 0
    /\ quit' = FALSE
    /\ exc' = FALSE
    /\ eof' = FALSE
    /\ is_opened' = FALSE
    /\ pc' = "open"
    /\ UNCHANGED concVars

\* variant: a source that did not open is read all the same
run_open_NoCheck ==
    /\ pc = "open"
    /\ n_open' = n_open + 1
    /\ \E opened \in BOOLEAN :
          /\ is_opened' = opened
          /\ pc' = "read"
    /\ UNCHANGED <<trackerVars, controllerVars, detections, tracker_state,
                   ctl_arg, control, histVars, runs, src_len, pos, display,
                   has_on_step, frame, calls, upd_args, step_ret, stepped,
                   callbacks, keychecks, n_release, quit, exc, eof, carried,
                   concVars>>

\* cap = cv2.VideoCapture(source); if not cap.isOpened(): raise RuntimeError
run_open ==
    /\ pc = "open"
    /\ n_open' = n_open + 1
    /\ \E opened \in BOOLEAN :
          /\ is_opened' = opened
          /\ pc' = IF opened THEN "read" ELSE "open_failed"
    /\ UNCHANGED <<trackerVars, controllerVars, detections, tracker_state,
                   ctl_arg, control, histVars, runs, src_len, pos, display,
                   has_on_step, frame, calls, upd_args, step_ret, stepped,
                   callbacks, keychecks, n_release, quit, exc, eof, carried,
                   concVars>>

\* variant: a frame is dropped, the one after it is delivered
run_read_Skip ==
    /\ pc = "read"
    /\ IF pos + 1 < src_len
         THEN /\ pos' = pos + 2
              /\ frame' = [id |-> pos + 2, w |-> 10, h |-> 10]
              /\ pc' = "step"
              /\ UNCHANGED eof
         ELSE /\ eof' = TRUE
              /\ pc' = "finally"
              /\ UNCHANGED <<pos, frame>>
    /\ UNCHANGED <<trackerVars, controllerVars, detections, tracker_state,
                   ctl_arg, control, histVars, runs, src_len, display,
                   has_on_step, calls, upd_args, step_ret, stepped,
                   callbacks, keychecks, n_open, n_release, quit, exc,
                   carried, is_opened,
                   concVars>>

\* variant: the end of the stream is polled again instead of ending the loop
run_read_Retry ==
    /\ pc = "read"
    /\ IF pos < src_len
         THEN /\ pos' = pos + 1
              /\ frame' = [id |-> pos + 1, w |-> 10, h |-> 10]
              /\ pc' = "step"
              /\ UNCHANGED eof
         ELSE /\ eof' = TRUE
              /\ pc' = "read"
              /\ UNCHANGED <<pos, frame>>
    /\ UNCHANGED <<trackerVars, controllerVars, detections, tracker_state,
                   ctl_arg, control, histVars, runs, src_len, display,
                   has_on_step, calls, upd_args, step_ret, stepped,
                   callbacks, keychecks, n_open, n_release, quit, exc,
                   carried, is_opened,
                   concVars>>

\* ok, frame = cap.read(); if not ok: break
run_read ==
    /\ pc = "read"
    /\ IF pos < src_len
         THEN /\ pos' = pos + 1
              /\ frame' = [id |-> pos + 1, w |-> 10, h |-> 10]
              /\ pc' = "step"
              /\ UNCHANGED eof
         ELSE /\ eof' = TRUE
              /\ pc' = "finally"
              /\ UNCHANGED <<pos, frame>>
    /\ UNCHANGED <<trackerVars, controllerVars, detections, tracker_state,
                   ctl_arg, control, histVars, runs, src_len, display,
                   has_on_step, calls, upd_args, step_ret, stepped,
                   callbacks, keychecks, n_open, n_release, quit, exc,
                   carried, is_opened,
                   concVars>>

\* step is entered with the frame and calls detector.detect, which answers
\* or raises
step_detect ==
    /\ pc = "step"
    /\ stepped' = Append(stepped, frame.id)
    /\ \/ \E dets \in RunDetections :
             /\ detections' = dets
             /\ calls' = <<"detect">>
             /\ pc' = "update"
             /\ UNCHANGED exc
       \/ /\ exc' = TRUE
          /\ calls' = <<>>
          /\ pc' = "finally"
          /\ UNCHANGED detections
    /\ UNCHANGED <<trackerVars, controllerVars, tracker_state, ctl_arg,
                   control, histVars, runs, src_len, pos, display,
                   has_on_step, frame, upd_args, step_ret, callbacks,
                   keychecks, n_open, n_release, quit, eof, carried,
                   is_opened, concVars>>

\* tracker_state = self.tracker.update(detections, w, h)
step_update ==
    /\ pc = "update"
    /\ SimpleTracker_update(detections, frame.w, frame.h)
    /\ upd_args' = [dets |-> detections, w |-> frame.w, h |-> frame.h]
    /\ calls' = Append(calls, "update")
    /\ cycle' = cycle + 1
    /\ prev_lost' = lost_frames
    /\ IF detections = <<>>
         THEN UNCHANGED <<last_det_cycle, det>>
         ELSE /\ last_det_cycle' = cycle + 1
              /\ det' = [box |-> detections[1].bbox_xyxy,
                         w |-> frame.w, h |-> frame.h]
    /\ pc' = "control"
    /\ UNCHANGED <<controllerVars, detections, ctl_arg, control, runs,
                   src_len, pos, display, has_on_step, frame, step_ret,
                   stepped, callbacks, keychecks, n_open, n_release, quit,
                   exc, eof, carried, is_opened,
                   concVars>>

\* control = self.controller.update(tracker_state)
step_control ==
    /\ pc = "control"
    /\ ctl_arg' = tracker_state
    /\ control' = Controller_update(tracker_state)
    /\ calls' = Append(calls, "controller")
    /\ pc' = "render"
    /\ UNCHANGED <<trackerVars, controllerVars, detections, tracker_state,
                   histVars, runs, src_len, pos, display, has_on_step, frame,
                   upd_args, step_ret, stepped, callbacks, keychecks, n_open,
                   n_release, quit, exc, eof, carried, is_opened,
                   concVars>>

\* variant: the bundle is built from a tracker state rendering has reset
step_render_Reset ==
    /\ pc = "render"
    /\ calls' = calls \o <<"draw_detections", "_draw_feedback">>
    /\ step_ret' = [control |-> control,
                    state |-> [detections |-> detections,
                               tracker_state |->
                                   [tracker_state EXCEPT !.found = FALSE],
                               control |-> control]]
    /\ pc' = "on_step"
    /\ UNCHANGED <<trackerVars, controllerVars, detections, tracker_state,
                   ctl_arg, control, histVars, runs, src_len, pos, display,
                   has_on_step, frame, upd_args, stepped, callbacks,
                   keychecks, n_open, n_release, quit, exc, eof, carried,
                   is_opened, concVars>>

\* the two drawing calls, which work on copies of the frame, then the return
\* of (annotated, control, state)
step_render ==
    /\ pc = "render"
    /\ calls' = calls \o <<"draw_detections", "_draw_feedback">>
    /\ step_ret' = [control |-> control,
                    state |-> [detections |-> detections,
                               tracker_state |-> tracker_state,
                               control |-> control]]
    /\ pc' = "on_step"
    /\ UNCHANGED <<trackerVars, controllerVars, detections, tracker_state,
                   ctl_arg, control, histVars, runs, src_len, pos, display,
                   has_on_step, frame, upd_args, stepped, callbacks,
                   keychecks, n_open, n_release, quit, exc, eof, carried,
                   is_opened, concVars>>

\* if on_step: on_step(annotated, control, state), which returns or raises
run_on_step ==
    /\ pc = "on_step"
    /\ IF has_on_step
         THEN \/ /\ callbacks' = callbacks + 1
                 /\ pc' = "display"
                 /\ UNCHANGED exc
              \/ /\ exc' = TRUE
                 /\ pc' = "finally"
                 /\ UNCHANGED callbacks
         ELSE /\ pc' = "display"
              /\ UNCHANGED <<callbacks, exc>>
    /\ UNCHANGED <<trackerVars, controllerVars, detections, tracker_state,
                   ctl_arg, control, histVars, runs, src_len, pos, display,
                   has_on_step, frame, calls, upd_args, step_ret, stepped,
                   keychecks, n_open, n_release, quit, eof, carried,
                   is_opened, concVars>>

\* variant: the quit key is noted but the loop goes on
run_display_NoBreak ==
    /\ pc = "display"
    /\ IF display
         THEN /\ keychecks' = keychecks + 1
              /\ \E q \in BOOLEAN : quit' = (quit \/ q)
              /\ pc' = "read"
         ELSE /\ pc' = "read"
              /\ UNCHANGED <<keychecks, quit>>
    /\ UNCHANGED <<trackerVars, controllerVars, detections, tracker_state,
                   ctl_arg, control, histVars, runs, src_len, pos, display,
                   has_on_step, frame, calls, upd_args, step_ret, stepped,
                   callbacks, n_open, n_release, exc, eof, carried,
                   is_opened, concVars>>

\* if display: imshow; key = waitKey(1) & 0xFF; if key == ord("q"): break
run_display ==
    /\ pc = "display"
    /\ IF display
         THEN /\ keychecks' = keychecks + 1
              /\ \E q \in BOOLEAN :
                    /\ quit' = q
                    /\ pc' = IF q THEN "finally" ELSE "read"
         ELSE /\ pc' = "read"
              /\ UNCHANGED <<keychecks, quit>>
    /\ UNCHANGED <<trackerVars, controllerVars, detections, tracker_state,
                   ctl_arg, control, histVars, runs, src_len, pos, display,
                   has_on_step, frame, calls, upd_args, step_ret, stepped,
                   callbacks, n_open, n_release, exc, eof, carried,
                   is_opened, concVars>>

\* variant: the release follows the loop without a finally clause
run_finally_NoFinally ==
    /\ pc = "finally"
    /\ n_release' = IF exc THEN n_release ELSE n_release + 1
    /\ pc' = IF exc THEN "raised" ELSE "returned"
    /\ UNCHANGED <<trackerVars, controllerVars, detections, tracker_state,
                   ctl_arg, control, histVars, runs, src_len, pos, display,
                   has_on_step, frame, calls, upd_args, step_ret, stepped,
                   callbacks, keychecks, n_open, quit, exc, eof, carried,
                   is_opened, concVars>>

\* finally: cap.release(); if display: destroyAllWindows(); then run returns
\* or the exception goes on to the caller
run_finally ==
    /\ pc = "finally"
    /\ n_release' = n_release + 1
    /\ pc' = IF exc THEN "raised" ELSE "returned"
    /\ UNCHANGED <<trackerVars, controllerVars, detections, tracker_state,
                   ctl_arg, control, histVars, runs, src_len, pos, display,
                   has_on_step, frame, calls, upd_args, step_ret, stepped,
                   callbacks, keychecks, n_open, quit, exc, eof, carried,
                   is_opened, concVars>>

InitRun ==
    /\ Fresh
    /\ Idle
    /\ lost_threshold = DefaultLostThreshold
    /\ center_margin = DefaultCenterMargin
    /\ forward_speed = DefaultForwardSpeed
    /\ rotate_speed = DefaultRotateSpeed
    /\ search_speed = DefaultSearchSpeed

\* the statements of one run
RunStep ==
    \/ run_open
    \/ run_read
    \/ step_detect
    \/ step_update
    \/ step_control
    \/ step_render
    \/ run_on_step
    \/ run_display
    \/ run_finally

NextRun == main \/ RunStep

SpecRun == InitRun /\ [][NextRun]_vars

\* a started run goes on executing its statements
SpecRunLive == SpecRun /\ WF_vars(RunStep)

----------------------------------------------------------------------------
(* Properties of FeedbackLoop.step inside run *)

StepCalls == <<"detect", "update", "controller", "draw_detections",
               "_draw_feedback">>

\* C11: a step calls detect, tracker.update on the detections and the frame's
\* size, controller.update on the tracker state and then the drawing, each
\* once and in this order; it returns the control controller.update produced
\* and a bundle of those detections, that tracker state and that control;
\* the drawing changes neither the control nor the tracker
StepDataFlow ==
    /\ [](/\ \E k \in 0..Len(StepCalls) : calls = SubSeq(StepCalls, 1, k)
          /\ pc \in {"control", "render", "on_step", "display"} =>
               upd_args = [dets |-> detections, w |-> frame.w, h |-> frame.h]
          /\ pc \in {"render", "on_step", "display"} =>
               /\ ctl_arg = tracker_state
               /\ control = Controller_update(ctl_arg)
          /\ pc \in {"on_step", "display"} =>
               /\ calls = StepCalls
               /\ step_ret.control = control
               /\ step_ret.state = [detections |-> detections,
                                    tracker_state |-> tracker_state,
                                    control |-> control])
    /\ [][pc = "render" =>
            UNCHANGED <<control, tracker_state, last_center, lost_frames,
                        detections>>]_vars

StepDataFlowWitness ==
    /\ pc = "on_step"
    /\ calls = StepCalls
    /\ detections = <<Detection(<<3, 4, 3, 6>>)>>
    /\ step_ret.state.tracker_state.found
    /\ step_ret.state.tracker_state.cx_norm = Rat(3, 10)
    /\ step_ret.control.mode = "rotate_left"

----------------------------------------------------------------------------
(* Properties of FeedbackLoop.run *)

\* C12: the frames read are handed to step once each and in source order;
\* when the next frame is read the step and the on_step call of the previous
\* one are complete, and tracker.update has run once per frame
FramesInOrder ==
    /\ \A i \in 1..Len(stepped) : stepped[i] = i
    /\ Len(stepped) = IF pc = "step" THEN pos - 1 ELSE pos
    /\ cycle <= Len(stepped)
    /\ Len(stepped) - cycle <= 1
    /\ pc \in {"read", "returned"} =>
         /\ cycle = pos
         /\ pos > 0 => (calls = StepCalls /\ "control" \in DOMAIN step_ret)
         /\ has_on_step => callbacks = pos

FramesInOrderWitness ==
    /\ pc = "read"
    /\ pos = 2
    /\ src_len = 3
    /\ stepped = <<1, 2>>
    /\ cycle = 2
    /\ has_on_step
    /\ callbacks = 2

\* C13: when the source cannot be opened run raises at once: it opened once,
\* read no frame, called no step and left the tracker as it was
OpenFailureFatal ==
    /\ []((n_open >= 1 /\ ~is_opened) =>
            /\ pc = "open_failed"
            /\ n_open = 1
            /\ pos = 0
            /\ ~eof
            /\ stepped = <<>>
            /\ cycle = 0
            /\ n_release = 0)
    /\ [][pc = "open" => UNCHANGED <<last_center, lost_frames>>]_vars
    /\ [][(pc = "open_failed" /\ pc' # pc) => runs' = runs + 1]_vars

OpenFailureFatalWitness ==
    /\ pc = "open_failed"
    /\ src_len = 3
    /\ n_open = 1
    /\ ~is_opened
    /\ last_center = None
    /\ lost_frames = 0

\* C15: every run starts with a tracker that remembers no centre and has
\* counted no lost frame, so found in a run means a detection in that run
FreshEachRun ==
    /\ pc = "open" => /\ last_center = None
                      /\ lost_frames = 0
                      /\ cycle = 0
    /\ ("found" \in DOMAIN tracker_state /\ tracker_state.found) => Acquired

FreshEachRunWitness ==
    /\ runs = 2
    /\ carried # None
    /\ pc = "control"
    /\ cycle = 1
    /\ detections = <<>>
    /\ ~tracker_state.found

\* C16: the quit key is looked for once per cycle, after step and on_step of
\* that cycle are complete, and once it is seen no frame is read and no step
\* or tracker update follows
CooperativeCancel ==
    /\ [](/\ keychecks = IF display /\ pc \in {"read", "finally", "returned"}
                             /\ ~exc /\ ~eof
                         THEN pos ELSE keychecks
          /\ ~display => keychecks = 0
          /\ keychecks <= pos
          /\ quit =>
               /\ pc \in {"finally", "returned"}
               /\ calls = StepCalls
               /\ Len(stepped) = pos
               /\ cycle = pos
               /\ has_on_step => callbacks = pos)
    /\ [][(quit /\ quit') =>
            UNCHANGED <<pos, cycle, stepped, callbacks, last_center,
                        lost_frames>>]_vars

CooperativeCancelWitness ==
    /\ quit
    /\ pc = "returned"
    /\ pos = 1
    /\ src_len = 3
    /\ has_on_step
    /\ callbacks = 1
    /\ keychecks = 1

\* C20: once the source is open, run releases it exactly once before it
\* ends, whether by end of stream, by the quit key or by an exception of
\* step or on_step, which still reaches the caller
ReleaseOnEveryExit ==
    /\ n_release <= 1
    /\ is_opened =>
         /\ pc \in {"returned", "raised"} => n_release = 1
         /\ pc \in {"read", "step", "update", "control", "render", "on_step",
                    "display", "finally"} => n_release = 0
    /\ pc = "raised" <=> (exc /\ n_release = 1)
    /\ pc = "returned" => (eof \/ quit)

ReleaseOnEveryExitWitness ==
    /\ pc = "raised"
    /\ is_opened
    /\ exc
    /\ has_on_step
    /\ calls = StepCalls
    /\ callbacks = pos - 1
    /\ n_release = 1

\* C14: on a source of finitely many frames run ends; the read that reports
\* the end of the stream ends the loop without an exception, and a run that
\* returned without the quit key has called step once for each frame
TerminatesOnFiniteSource ==
    /\ [](eof => (pc \in {"finally", "returned"} /\ ~exc))
    /\ []((pc = "returned" /\ ~quit) =>
            /\ eof
            /\ pos = src_len
            /\ Len(stepped) = src_len
            /\ cycle = src_len)
    /\ (pc = "read") ~> (pc \in {"returned", "raised"})

TerminatesOnFiniteSourceWitness ==
    /\ pc = "returned"
    /\ eof
    /\ ~quit
    /\ src_len = 3
    /\ Len(stepped) = 3
    /\ cycle = 3
    /\ n_release = 1

----------------------------------------------------------------------------
(* SimpleTracker.update entered by two callers without a lock: every read  *)
(* and every write of an attribute of the tracker is a step of its own     *)

MaxLost == 11

ConcDetections == {<<>>, <<Detection(<<7, 4, 7, 6>>)>>}

\* the states a tracker is in between update calls: nothing remembered, or a
\* centre remembered with fewer than lost_threshold lost frames
TrackerIdleStates ==
    {<<None, k>> : k \in 0..MaxLost}
    \cup {<<<<Rat(3, 10), Half>>, k>> : k \in 0..(DefaultLostThreshold - 1)}

Inside(t) == th[t].pc \notin {"out", "done", "error"}
Other(t) == 3 - t

concFrame == <<lost_threshold, controllerVars, detections, tracker_state,
               ctl_arg, control, histVars, runVars>>

\* update(detections, 10, 10) is entered; 'if not detections' picks the branch
upd_call(t, dets) ==
    /\ th[t].pc = "out"
    /\ th' = [th EXCEPT ![t].dets = dets,
                        ![t].pc = IF dets = <<>> THEN "incr_load"
                                  ELSE "set_center"]
    /\ conc' = [conc EXCEPT !.started = Append(@, t),
                            !.overlapped = @ \/ Inside(Other(t))]
    /\ UNCHANGED <<last_center, lost_frames, concFrame>>

\* self.lost_frames += 1, the read
upd_incr_load(t) ==
    /\ th[t].pc = "incr_load"
    /\ th' = [th EXCEPT ![t].reg = lost_frames, ![t].pc = "incr_store"]
    /\ UNCHANGED <<last_center, lost_frames, conc, concFrame>>

\* variant: the counter is written without the increment
upd_incr_store_NoIncrement(t) ==
    /\ th[t].pc = "incr_store"
    /\ lost_frames' = th[t].reg
    /\ th' = [th EXCEPT ![t].pc = "expire"]
    /\ UNCHANGED <<last_center, conc, concFrame>>

\* self.lost_frames += 1, the write
upd_incr_store(t) ==
    /\ th[t].pc = "incr_store"
    /\ lost_frames' = th[t].reg + 1
    /\ th' = [th EXCEPT ![t].pc = "expire"]
    /\ UNCHANGED <<last_center, conc, concFrame>>

\* if self.lost_frames >= self.lost_threshold:
upd_expire(t) ==
    /\ th[t].pc = "expire"
    /\ th' = [th EXCEPT ![t].pc = IF lost_frames >= lost_threshold
                                  THEN "clear" ELSE "found_count"]
    /\ UNCHANGED <<last_center, lost_frames, conc, concFrame>>

\* self.last_center = None
upd_clear(t) ==
    /\ th[t].pc = "clear"
    /\ last_center' = None
    /\ th' = [th EXCEPT ![t].pc = "found_count"]
    /\ UNCHANGED <<lost_frames, conc, concFrame>>

\* "found": self.lost_frames < self.lost_threshold and ..., the left operand
upd_found_count(t) ==
    /\ th[t].pc = "found_count"
    /\ th' = [th EXCEPT ![t].found = FALSE,
                        ![t].pc = IF lost_frames < lost_threshold
                                  THEN "found_center" ELSE "cx_test"]
    /\ UNCHANGED <<last_center, lost_frames, conc, concFrame>>

\* ... and self.last_center is not None
upd_found_center(t) ==
    /\ th[t].pc = "found_center"
    /\ th' = [th EXCEPT ![t].found = (last_center # None),
                        ![t].pc = "cx_test"]
    /\ UNCHANGED <<last_center, lost_frames, conc, concFrame>>

\* "cx_norm": 0.5 if self.last_center is None else ...
upd_cx_test(t) ==
    /\ th[t].pc = "cx_test"
    /\ th' = [th EXCEPT ![t].cx = Half,
                        ![t].pc = IF last_center = None THEN "cy_test"
                                  ELSE "cx_val"]
    /\ UNCHANGED <<last_center, lost_frames, conc, concFrame>>

\* ... else self.last_center[0], a TypeError when it is None by now
upd_cx_val(t) ==
    /\ th[t].pc = "cx_val"
    /\ th' = IF last_center = None
               THEN [th EXCEPT ![t].ret = [error |-> "TypeError"],
                               ![t].pc = "error"]
               ELSE [th EXCEPT ![t].cx = last_center[1],
                               ![t].pc = "cy_test"]
    /\ UNCHANGED <<last_center, lost_frames, conc, concFrame>>

\* "cy_norm": 0.5 if self.last_center is None else ...; without the second
\* read the dict is complete and returned
upd_cy_test(t) ==
    /\ th[t].pc = "cy_test"
    /\ th' = IF last_center = None
               THEN [th EXCEPT ![t].cy = Half,
                               ![t].ret = [found     |-> th[t].found,
                                           cx_norm   |-> th[t].cx,
                                           cy_norm   |-> Half,
                                           bbox_xyxy |-> None],
                               ![t].pc = "done"]
               ELSE [th EXCEPT ![t].pc = "cy_val"]
    /\ UNCHANGED <<last_center, lost_frames, conc, concFrame>>

\* ... else self.last_center[1], then the return
upd_cy_val(t) ==
    /\ th[t].pc = "cy_val"
    /\ th' = IF last_center = None
               THEN [th EXCEPT ![t].ret = [error |-> "TypeError"],
                               ![t].pc = "error"]
               ELSE [th EXCEPT ![t].cy = last_center[2],
                               ![t].ret = [found     |-> th[t].found,
                                           cx_norm   |-> th[t].cx,
                                           cy_norm   |-> last_center[2],
                                           bbox_xyxy |-> None],
                               ![t].pc = "done"]
    /\ UNCHANGED <<last_center, lost_frames, conc, concFrame>>

\* self.last_center = (cx_norm, cy_norm) of the first detection
upd_set_center(t) ==
    /\ th[t].pc = "set_center"
    /\ LET n == bbox_in_frame_normalized(th[t].dets[1].bbox_xyxy, 10, 10)
       IN  /\ last_center' = n
           /\ th' = [th EXCEPT ![t].cx = n[1], ![t].cy = n[2],
                               ![t].pc = "reset_count"]
    /\ UNCHANGED <<lost_frames, conc, concFrame>>

\* self.lost_frames = 0, then the return
upd_reset_count(t) ==
    /\ th[t].pc = "reset_count"
    /\ lost_frames' = 0
    /\ th' = [th EXCEPT ![t].ret = [found     |-> TRUE,
                                    cx_norm   |-> th[t].cx,
                                    cy_norm   |-> th[t].cy,
                                    bbox_xyxy |-> th[t].dets[1].bbox_xyxy],
                        ![t].pc = "done"]
    /\ UNCHANGED <<last_center, conc, concFrame>>

InitConc ==
    /\ \E st \in TrackerIdleStates :
          /\ last_center = st[1]
          /\ lost_frames = st[2]
    /\ lost_threshold = DefaultLostThreshold
    /\ center_margin = DefaultCenterMargin
    /\ forward_speed = DefaultForwardSpeed
    /\ rotate_speed = DefaultRotateSpeed
    /\ search_speed = DefaultSearchSpeed
    /\ detections = <<>>
    /\ tracker_state = NoneRec
    /\ ctl_arg = NoneRec
    /\ control = NoneRec
    /\ cycle = 0
    /\ last_det_cycle = 0
    /\ det = NoneRec
    /\ prev_lost = 0
    /\ Idle

NextConc ==
    \E t \in {1, 2} :
        \/ \E dets \in ConcDetections : upd_call(t, dets)
        \/ upd_incr_load(t)
        \/ upd_incr_store(t)
        \/ upd_expire(t)
        \/ upd_clear(t)
        \/ upd_found_count(t)
        \/ upd_found_center(t)
        \/ upd_cx_test(t)
        \/ upd_cx_val(t)
        \/ upd_cy_test(t)
        \/ upd_cy_val(t)
        \/ upd_set_center(t)
        \/ upd_reset_count(t)

SpecConc == InitConc /\ [][NextConc]_vars

\* what one whole update(dets, 10, 10) makes of a tracker with centre lc and
\* counter lf: the attributes after it and the dict it returns
UpdateAtomic(lc, lf, dets) ==
    IF dets = <<>>
      THEN LET lf2 == lf + 1
               lc2 == IF lf2 >= lost_threshold THEN None ELSE lc
           IN  [lc |-> lc2, lf |-> lf2,
                ret |-> [found     |-> lf2 < lost_threshold /\ lc2 # None,
                         cx_norm   |-> IF lc2 = None THEN Half ELSE lc2[1],
                         cy_norm   |-> IF lc2 = None THEN Half ELSE lc2[2],
                         bbox_xyxy |-> None]]
      ELSE LET n == bbox_in_frame_normalized(dets[1].bbox_xyxy, 10, 10)
           IN  [lc |-> n, lf |-> 0,
                ret |-> [found     |-> TRUE,
                         cx_norm   |-> n[1],
                         cy_norm   |-> n[2],
                         bbox_xyxy |-> dets[1].bbox_xyxy]]

\* the attributes and the two returned dicts when caller a runs its whole
\* update before caller b
SerialOutcome(a, b) ==
    LET r1 == UpdateAtomic(conc.lc0, conc.lf0, th[a].dets)
        r2 == UpdateAtomic(r1.lc, r1.lf, th[b].dets)
    IN  [lc |-> r2.lc, lf |-> r2.lf,
         ret |-> [t \in {1, 2} |-> IF t = a THEN r1.ret ELSE r2.ret]]

Outcome == [lc |-> last_center, lf |-> lost_frames,
            ret |-> [t \in {1, 2} |-> th[t].ret]]

BothReturned == \A t \in {1, 2} : th[t].pc \in {"done", "error"}

\* C17: update reads and writes last_center and lost_frames in separate
\* steps; two calls that do not overlap leave what the serial order they ran
\* in leaves, while two calls that interleave can leave attributes or return
\* a dict that neither serial order produces
UnsafeUnlessSerialized ==
    BothReturned =>
        /\ ~conc.overlapped =>
             Outcome = SerialOutcome(conc.started[1], conc.started[2])
        /\ Outcome \notin {SerialOutcome(1, 2), SerialOutcome(2, 1)} =>
             conc.overlapped

\* a lost increment: two empty updates, the counter one higher only
LostIncrementWitness ==
    /\ BothReturned
    /\ conc.overlapped
    /\ th[1].dets = <<>> /\ th[2].dets = <<>>
    /\ lost_frames = conc.lf0 + 1
    /\ Outcome \notin {SerialOutcome(1, 2), SerialOutcome(2, 1)}

\* found = true returned while last_center ends as None
FoundWithoutCentre ==
    /\ BothReturned
    /\ conc.overlapped
    /\ \E t \in {1, 2} : th[t].pc = "done" /\ th[t].ret.found
    /\ last_center = None
    /\ Outcome \notin {SerialOutcome(1, 2), SerialOutcome(2, 1)}

====
